---- MODULE Spec2Model ----
(***************************************************************************)
(* Emotion Explorer: the journal store (internal/journal/storage.go) and   *)
(* the navigation controller (src/unnamed/part_008, the stack-based        *)
(* cmd/emotion-explorer/main.go).                                          *)
(*                                                                         *)
(* Spec     : concurrent callers of SaveLogEntry / GetJournalEntries.      *)
(* SpecNav  : the single UI thread driving the navigation controller.      *)
(* SpecCore : calls of internal/core (hierarchy.go) on bounded emotion maps.*)
(***************************************************************************)
EXTENDS Integers, Sequences, FiniteSets, TLC

\* ------------------------------------------------------------------ bounds
NumCallers == 2     \* goroutines calling into the journal package
MaxTime == 2        \* last instant time.Now() hands out; later instants are
                    \* outside the years 0..9999 that Time.MarshalJSON accepts
MaxEmotions == 3    \* ids an emotion map handed to internal/core may hold

Callers == 1..NumCallers

\* ------------------------------------------------------- strings as bytes
\* A display string is the sequence of its byte values; ids are compared
\* for equality only and stay TLA+ strings.
sHappy == <<72, 97, 112, 112, 121>>
sPlayful == <<80, 108, 97, 121, 102, 117, 108>>
sAroused == <<65, 114, 111, 117, 115, 101, 100>>
sSad == <<83, 97, 100>>
sNote == <<110>>

\* ---------------------------------------------------------------- LogEntry
LogEntry(ts, id, name, notes) ==
    [Timestamp |-> ts, EmotionID |-> id, EmotionName |-> name, Notes |-> notes]

\* The zero value of the struct, what json.Unmarshal starts every element from.
ZeroEntry == LogEntry(0, "", <<>>, <<>>)

\* ------------------------------------------------ JSON text of the journal
\* The file content is a sequence of tokens.  Structural tokens are
\* one-tuples, a key with its value is a pair.
LBrack == <<"[">>
RBrack == <<"]">>
LBrace == <<"{">>
RBrace == <<"}">>

FieldKeys == {"timestamp", "emotion_id", "emotion_name", "notes"}

IsField(tok) == Len(tok) = 2 /\ tok[1] \in FieldKeys

\* Time.MarshalJSON fails for a year outside [0,9999].
TimeMarshalOK(ts) == ts >= 0 /\ ts <= MaxTime

\* One array element; `notes` carries omitempty.
EncodeEntry(e) ==
    <<LBrace, <<"timestamp", e.Timestamp>>, <<"emotion_id", e.EmotionID>>,
      <<"emotion_name", e.EmotionName>>>>
    \o (IF e.Notes = <<>> THEN <<>> ELSE << <<"notes", e.Notes>> >>)
    \o <<RBrace>>

RECURSIVE EncodeAll(_)
EncodeAll(entries) ==
    IF entries = <<>> THEN <<>>
    ELSE EncodeEntry(Head(entries)) \o EncodeAll(Tail(entries))

\* json.MarshalIndent(entries, "", "  ")
MarshalIndent(entries) ==
    IF \E i \in 1..Len(entries) : ~TimeMarshalOK(entries[i].Timestamp)
    THEN [ok |-> FALSE, data |-> <<>>]
    ELSE [ok |-> TRUE, data |-> <<LBrack>> \o EncodeAll(entries) \o <<RBrack>>]

SetField(e, tok) ==
    CASE tok[1] = "timestamp"    -> [e EXCEPT !.Timestamp = tok[2]]
      [] tok[1] = "emotion_id"   -> [e EXCEPT !.EmotionID = tok[2]]
      [] tok[1] = "emotion_name" -> [e EXCEPT !.EmotionName = tok[2]]
      [] tok[1] = "notes"        -> [e EXCEPT !.Notes = tok[2]]

DecodeFail == [ok |-> FALSE, entries |-> <<>>]

RECURSIVE Parse(_, _, _, _, _)
Parse(data, i, inObj, cur, acc) ==
    IF i > Len(data) THEN DecodeFail
    ELSE LET tok == data[i] IN
         IF inObj
         THEN IF IsField(tok) THEN Parse(data, i + 1, TRUE, SetField(cur, tok), acc)
              ELSE IF tok = RBrace
                   THEN Parse(data, i + 1, FALSE, ZeroEntry, Append(acc, cur))
                   ELSE DecodeFail
         ELSE IF tok = LBrace THEN Parse(data, i + 1, TRUE, ZeroEntry, acc)
              ELSE IF tok = RBrack /\ i = Len(data)
                   THEN [ok |-> TRUE, entries |-> acc]
                   ELSE DecodeFail

\* json.Unmarshal(data, &entries)
Unmarshal(data) ==
    IF Len(data) = 0 \/ data[1] # LBrack THEN DecodeFail
    ELSE Parse(data, 2, FALSE, ZeroEntry, <<>>)

\* ---------------------------------------------------------------- the file
NoFile == [exists |-> FALSE, data |-> <<>>]
FileOf(d) == [exists |-> TRUE, data |-> d]

OldEntry == LogEntry(0, "happy", sHappy, <<>>)

\* What journal.json may hold when the process starts.
InitialFiles ==
    { NoFile,                                   \* no file yet
      FileOf(<<>>),                             \* zero-length file
      FileOf(<<LBrace>>),                       \* not a JSON array
      FileOf(MarshalIndent(<<OldEntry>>).data) }  \* written by an earlier run

\* os.ReadFile(journalFilePath) when the operating system serves the read.
GoodRead(f) ==
    IF f.exists THEN [err |-> "nil", data |-> f.data]
                ELSE [err |-> "notexist", data |-> <<>>]

\* os.ReadFile(journalFilePath): every outcome the call can have on file f.
ReadOutcomes(f) == { [err |-> "io", data |-> <<>>], GoodRead(f) }

\* os.WriteFile opens with O_WRONLY|O_CREATE|O_TRUNC, then writes, then
\* closes.  The open either fails and leaves the file alone, or truncates.
OpenOutcomes(f) ==
    { [err |-> "nil", file |-> FileOf(<<>>)], [err |-> "write", file |-> f] }

\* The write either puts all of `out` in the file or stops short of it.
WriteOutcomes(out) ==
    { [err |-> "nil", file |-> FileOf(out)] }
    \cup { [err |-> "write", file |-> FileOf(SubSeq(out, 1, k))] :
             k \in 0..(Len(out) - 1) }

\* ------------------------------------------------- storage.go, pure parts
AppendEntryFront(entries, newEntry) == <<newEntry>> \o entries

\* storage.go:123
AppendEntry(entries, newEntry) == Append(entries, newEntry)

\* storage.go:106-120: the entries SaveLogEntry starts from.
ExistingEntries(read) ==
    IF read.err = "nil" /\ Len(read.data) > 0
    THEN LET dec == Unmarshal(read.data) IN
         IF dec.ok THEN dec.entries ELSE <<>>
    ELSE <<>>

\* The alternative the comment at storage.go:112 mentions: fail on bad JSON.
PrepareSaveStrict(read, newEntry) ==
    IF read.err = "io" THEN [err |-> "read", out |-> <<>>]
    ELSE IF read.err = "nil" /\ Len(read.data) > 0 /\ ~Unmarshal(read.data).ok
         THEN [err |-> "decode", out |-> <<>>]
         ELSE LET m == MarshalIndent(AppendEntry(ExistingEntries(read), newEntry)) IN
              IF m.ok THEN [err |-> "nil", out |-> m.data]
                      ELSE [err |-> "marshal", out |-> <<>>]

\* SaveLogEntry without the return of storage.go:101-104: a read that
\* failed counts as a journal without entries.
PrepareSaveReadAsEmpty(read, newEntry) ==
    LET m == MarshalIndent(AppendEntry(ExistingEntries(read), newEntry)) IN
    IF m.ok THEN [err |-> "nil", out |-> m.data]
            ELSE [err |-> "marshal", out |-> <<>>]

\* storage.go:100-130: from the read to the bytes to write.
PrepareSave(read, newEntry) ==
    IF read.err = "io" THEN [err |-> "read", out |-> <<>>]
    ELSE LET m == MarshalIndent(AppendEntry(ExistingEntries(read), newEntry)) IN
         IF m.ok THEN [err |-> "nil", out |-> m.data]
                 ELSE [err |-> "marshal", out |-> <<>>]

\* loadJournalEntries without the len(data) == 0 test of storage.go:66.
LoadResultNoEmptyTest(read) ==
    IF read.err = "notexist" THEN [err |-> "nil", entries |-> <<>>]
    ELSE IF read.err # "nil" THEN [err |-> "read", entries |-> <<>>]
    ELSE LET dec == Unmarshal(read.data) IN
         IF dec.ok THEN [err |-> "nil", entries |-> dec.entries]
                   ELSE [err |-> "decode", entries |-> <<>>]

\* storage.go:56-79: what loadJournalEntries returns for a read outcome.
LoadResult(read) ==
    IF read.err = "notexist" THEN [err |-> "nil", entries |-> <<>>]
    ELSE IF read.err # "nil" THEN [err |-> "read", entries |-> <<>>]
    ELSE IF Len(read.data) = 0 THEN [err |-> "nil", entries |-> <<>>]
    ELSE LET dec == Unmarshal(read.data) IN
         IF dec.ok THEN [err |-> "nil", entries |-> dec.entries]
                   ELSE [err |-> "decode", entries |-> <<>>]

\* Every complete run of SaveLogEntry on file f when no other call is in
\* flight: the error it returns and the file it leaves.
SaveLogEntryOutcomes(f, newEntry) ==
    UNION { LET prep == PrepareSave(read, newEntry) IN
            IF prep.err # "nil" THEN { [err |-> prep.err, file |-> f] }
            ELSE UNION { IF o.err # "nil" THEN { [err |-> o.err, file |-> o.file] }
                         ELSE WriteOutcomes(prep.out) : o \in OpenOutcomes(f) }
          : read \in ReadOutcomes(f) }

\* ------------------------------------------------------ data.Emotion, core
Emotion(id, name, type, color, parentID) ==
    [ID |-> id, Name |-> name, Type |-> type, Color |-> color, ParentID |-> parentID]

\* Go's < on strings: bytewise lexicographic.
StrLess(a, b) ==
    \E k \in 0..Len(a) :
        /\ k <= Len(b)
        /\ \A i \in 1..k : a[i] = b[i]
        /\ \/ k = Len(a) /\ k < Len(b)
           \/ k < Len(a) /\ k < Len(b) /\ a[k + 1] < b[k + 1]

\* sort.Slice(x, func(i, j) { x[i].Name < x[j].Name }) over the elements
\* collected from a map range: every arrangement of S the sort can end in.
SortedByName(S) ==
    { x \in [1..Cardinality(S) -> S] :
        /\ \A i, j \in 1..Cardinality(S) : i # j => x[i] # x[j]
        /\ \A i, j \in 1..Cardinality(S) : i < j => ~StrLess(x[j].Name, x[i].Name) }

\* GetPrimaryEmotions taking the emotions without a parent, whatever
\* their type tag.
GetPrimaryEmotionsRoots(emotions) ==
    IF DOMAIN emotions = {} THEN { <<>> }
    ELSE SortedByName({ emotions[k] : k \in { d \in DOMAIN emotions :
                                               emotions[d].ParentID = "" } })

\* hierarchy.go:14-36, the slices the call may return.
GetPrimaryEmotions(emotions) ==
    IF DOMAIN emotions = {} THEN { <<>> }
    ELSE SortedByName({ emotions[k] : k \in { d \in DOMAIN emotions :
                                               emotions[d].Type = "primary" } })

\* GetChildrenOf descending one more level: children and grandchildren.
GetChildrenOfDeep(parentID, allEmotions) ==
    IF DOMAIN allEmotions = {} THEN { <<>> }
    ELSE LET direct == { d \in DOMAIN allEmotions :
                           allEmotions[d].ParentID = parentID }
         IN SortedByName({ allEmotions[k] : k \in { d \in DOMAIN allEmotions :
                \/ d \in direct
                \/ \E c \in direct : allEmotions[d].ParentID = allEmotions[c].ID } })

\* hierarchy.go:43-65, the slices the call may return.
GetChildrenOf(parentID, allEmotions) ==
    IF DOMAIN allEmotions = {} THEN { <<>> }
    ELSE SortedByName({ allEmotions[k] : k \in { d \in DOMAIN allEmotions :
                                               allEmotions[d].ParentID = parentID } })

\* An emotions.json as the loader hands it over (names from loader_test.go).
DataFeelings ==
    [ k \in {"happy", "sad", "playful", "aroused"} |->
        CASE k = "happy"   -> Emotion("happy", sHappy, "primary", "#F29727", "")
          [] k = "sad"     -> Emotion("sad", sSad, "primary", "#5B7DB1", "")
          [] k = "playful" -> Emotion("playful", sPlayful, "secondary", "#F2B527", "happy")
          [] k = "aroused" -> Emotion("aroused", sAroused, "tertiary", "#F2C927", "playful") ]

\* An emotions.json without tertiary entries: its longest chain is two.
DataShallow ==
    [ k \in {"happy", "sad", "playful"} |-> DataFeelings[k] ]

NavDatasets == { DataFeelings, DataShallow }

\* A slice value: nil or not, and its elements.  A slice declared with var
\* and never appended to is nil.
AsSliceVar(elems) == [isNil |-> (elems = <<>>), elems |-> elems]

\* hierarchy.go:17, 20 and 49, 52: the slice returned starts from a
\* composite literal or from make, so it is never nil.
AsSlice(elems) == [isNil |-> FALSE, elems |-> elems]

\* Emotion maps for the calls of internal/core: ids in the order of
\* IDPool, display names "B", "a" and "ab", two type tags, and as parent
\* none or an id earlier in IDPool, whether that id is in the map or not.
IDPool == <<"joy", "grief", "sorrow", "anger", "fear">>
CoreIDs == { IDPool[i] : i \in 1..MaxEmotions }
CoreNames == { <<66>>, <<97>>, <<97, 98>> }
CoreTypes == { "primary", "secondary" }

CoreChoices(i) ==
    { Emotion(IDPool[i], n, t, "#FFD700", p) :
        n \in CoreNames, t \in CoreTypes,
        p \in {""} \cup { IDPool[j] : j \in 1..(i - 1) } }

RECURSIVE CoreMapsUpTo(_)
CoreMapsUpTo(n) ==
    IF n = 0 THEN { [k \in {} |-> Emotion("", <<>>, "", "", "")] }
    ELSE LET prev == CoreMapsUpTo(n - 1) IN
         prev \cup { [k \in DOMAIN f \cup {IDPool[n]} |->
                        IF k = IDPool[n] THEN e ELSE f[k]] :
                      f \in prev, e \in CoreChoices(n) }

\* The maps a caller may pass; the empty one stands for nil as well,
\* len() being 0 for both (hierarchy.go:16, 45).
CoreEmotionSets == CoreMapsUpTo(MaxEmotions)

\* The parent ids a caller may ask for: every id, and one no map holds.
CoreLookupIDs == CoreIDs \cup {"nonexistent_id"}

\* --------------------------------------------------- main.go, pure parts
ModeBrowsing == "ModeBrowsing"
ModeLogging == "ModeLogging"

browseModeTitle == "Emotion Explorer"
logModeTitle == "Emotion Explorer - Logging..."

\* ui.CreateEmotionListView: the view is its title, parent and cards.
\* The title is the format string with its argument, the parent is <<>>
\* for nil and <<e>> for &e.
createEmotionListView(titleFmt, titleArg, parent, emotions) ==
    [title |-> <<titleFmt, titleArg>>, parent |-> parent, items |-> emotions]

\* part_008:181 the label shown when the active stack is empty
NoViewLabel == createEmotionListView("Error: No view available.", <<>>, <<>>, <<>>)

\* part_008:87
initialBrowsingView(primary) ==
    createEmotionListView("Primary Emotions", <<>>, <<>>, primary)

\* The Logging root built with the Browsing root's title.
initialLogViewCopied(primary) ==
    createEmotionListView("Primary Emotions", <<>>, <<>>, primary)

\* part_008:310
initialLogView(primary) ==
    createEmotionListView("Select Feeling to Log", <<>>, <<>>, primary)

\* part_008:246-248
browseChildView(selected, children) ==
    createEmotionListView("Exploring: %s", selected.Name, <<selected>>, children)

\* part_008:264-265
logChildView(selected, children) ==
    createEmotionListView("Log > %s > ...", selected.Name, <<selected>>, children)

\* pushView overwriting the top view instead of appending.
pushViewReplace(view, stack) ==
    IF Len(stack) = 0 THEN <<view>> ELSE [stack EXCEPT ![Len(stack)] = view]

\* pushView appending the view twice.
pushViewTwice(view, stack) == Append(Append(stack, view), view)

\* part_008:147 the append of pushView
pushView(view, stack) == Append(stack, view)

\* popView refusing only on an empty stack (len < 1 instead of len <= 1).
popViewLast(stack) ==
    IF Len(stack) < 1 THEN [popped |-> FALSE, stack |-> stack]
    ELSE [popped |-> TRUE, stack |-> SubSeq(stack, 1, Len(stack) - 1)]

\* popView slicing off the bottom view, (*stack)[1:], instead of the top.
popViewHead(stack) ==
    IF Len(stack) <= 1 THEN [popped |-> FALSE, stack |-> stack]
    ELSE [popped |-> TRUE, stack |-> SubSeq(stack, 2, Len(stack))]

\* part_008:155-165 popView: whether it popped, and the stack it leaves
popView(stack) ==
    IF Len(stack) <= 1 THEN [popped |-> FALSE, stack |-> stack]
    ELSE [popped |-> TRUE, stack |-> SubSeq(stack, 1, Len(stack) - 1)]

\* part_008:171-176, 197-202 the stack of the current mode
activeStack(mode, nav, logNav) == IF mode = ModeLogging THEN logNav ELSE nav

\* updateContentFromActiveStack reading the browsing stack in both modes.
updateContentFromNavStack(mode, nav, logNav) ==
    IF Len(nav) = 0 THEN <<NoViewLabel>> ELSE <<nav[Len(nav)]>>

\* part_008:170-193 the Objects updateContentFromActiveStack sets
updateContentFromActiveStack(mode, nav, logNav) ==
    LET st == activeStack(mode, nav, logNav) IN
    IF Len(st) = 0 THEN <<NoViewLabel>> ELSE <<st[Len(st)]>>

\* updateBackButtonState reading the browsing stack in both modes.
updateBackButtonStateNav(mode, nav, logNav) == ~(Len(nav) <= 1)

\* part_008:196-211 TRUE when updateBackButtonState enables the button
updateBackButtonState(mode, nav, logNav) ==
    ~(Len(activeStack(mode, nav, logNav)) <= 1)

\* saveLoggedEmotion taking id and name from the scope of the view, the
\* parent of the selected emotion.
entryForParent(emotionToLog, now) ==
    LogEntry(now, emotionToLog.ParentID, emotionToLog.Name, <<>>)

\* part_008:276-282 the entry saveLoggedEmotion builds
entryFor(emotionToLog, now) ==
    LogEntry(now, emotionToLog.ID, emotionToLog.Name, <<>>)

\* --------------------------------------------------------------- the state
VARIABLES
    emotionData,            \* data.EmotionData.Emotions, id -> Emotion
    primaryEmotions,        \* the cached result of GetPrimaryEmotions
    currentMode,            \* ModeBrowsing or ModeLogging
    navigationStack,        \* views of the browsing stack, bottom first
    loggingNavigationStack, \* views of the logging stack, bottom first
    mainContentArea,        \* mainContentArea.Objects
    backButton,             \* TRUE while the back button is enabled
    windowTitle,            \* title of mainWindow
    windowShown,            \* TRUE while mainWindow is visible
    lastEvent,              \* history: the handler that ran last, and on what
    navPushed,              \* history: the browsing stack before each push
                            \*          that has not been popped since
    logPushed,              \* history: the same for the logging stack
    navAtLog,               \* history: the browsing stack when Logging was
                            \*          entered; <<>> while Browsing
    coreCall,               \* the last call of internal/core and its result
    journalFile,   \* content of journal.json
    journalMutex,  \* TRUE while sync.Mutex journalMutex is locked
    pc,            \* where each caller is inside its journal call
    locals,        \* each caller's local variables
    clock,         \* the next instant time.Now() returns
    startFile,     \* history: journalFile at process start
    saved,         \* history: entries whose SaveLogEntry returned nil, in order
    failed,        \* history: some SaveLogEntry has returned an error
    writeFailed,   \* history: some os.WriteFile of SaveLogEntry has failed
    lastLoad       \* history: the entries the last GetJournalEntries call
                   \*          that returned nil handed back; kept only
                   \*          while NeverCorruptNoWriteFail holds

jvars == <<journalFile, journalMutex, pc, locals, clock, startFile, saved, failed,
          writeFailed, lastLoad>>
nvars == <<emotionData, primaryEmotions, currentMode, navigationStack,
           loggingNavigationStack, mainContentArea, backButton, windowTitle,
           windowShown, lastEvent, navPushed, logPushed, navAtLog, coreCall>>
vars == <<jvars, nvars>>

NoRead == [err |-> "none", data |-> <<>>]
NoLocals ==
    [entry |-> ZeroEntry, before |-> NoFile, read |-> NoRead, out |-> <<>>,
     err |-> "none", result |-> <<>>]

\* What a caller of the package may pass (id, name, notes).
SaveInputs ==
    { [id |-> "happy", name |-> sHappy, notes |-> <<>>],
      [id |-> "sad", name |-> sSad, notes |-> sNote] }

\* The record kept of the last handler: which one, the emotion it was given
\* (<<>> if none), mode, active-stack depth, back-button state and journal
\* file when it started, the SaveLogEntry calls it made with the entry and
\* the error of the last one, the dialog it opened, and both stacks, the
\* content, the window title and the history variables as it found them.
Event(kind, emotion, calls, err, entry, dialog) ==
    [kind |-> kind, emotion |-> emotion, mode |-> currentMode, dialog |-> dialog,
     depth |-> Len(activeStack(currentMode, navigationStack, loggingNavigationStack)),
     enabled |-> backButton, before |-> journalFile,
     calls |-> calls, err |-> err, entry |-> entry,
     nav |-> navigationStack, logNav |-> loggingNavigationStack,
     content |-> mainContentArea, title |-> windowTitle,
     pushed |-> activeStack(currentMode, navPushed, logPushed),
     navAtLog |-> navAtLog]

NoEvent ==
    [kind |-> "main", emotion |-> <<>>, mode |-> ModeBrowsing, dialog |-> "none",
     depth |-> 0,
     enabled |-> FALSE, before |-> NoFile, calls |-> 0, err |-> "none",
     entry |-> <<>>, nav |-> <<>>, logNav |-> <<>>, content |-> <<>>,
     title |-> browseModeTitle, pushed |-> <<>>, navAtLog |-> <<>>]

\* The read found bytes that do not decode.
Corrupt(read) == read.err = "nil" /\ Len(read.data) > 0 /\ ~Unmarshal(read.data).ok

\* The journal did not start corrupt and no os.WriteFile has failed.
NeverCorruptNoWriteFail == ~Corrupt(GoodRead(startFile)) /\ ~writeFailed

NoCoreCall == [fn |-> "none", parentID |-> "", result |-> [isNil |-> FALSE, elems |-> <<>>]]

\* journal.init and the package variables
InitJournal ==
    /\ journalFile \in InitialFiles
    /\ journalMutex = FALSE
    /\ pc = [p \in Callers |-> "idle"]
    /\ locals = [p \in Callers |-> NoLocals]
    /\ clock = 1
    /\ startFile = journalFile
    /\ saved = <<>>
    /\ failed = FALSE
    /\ writeFailed = FALSE
    /\ lastLoad = <<>>

\* part_008:64-97 main() up to ShowAndRun, on the loaded data
InitMain(data) ==
    /\ emotionData = data
    /\ primaryEmotions \in GetPrimaryEmotions(data)
    /\ currentMode = ModeBrowsing
    /\ navigationStack = pushView(initialBrowsingView(primaryEmotions), <<>>)
    /\ loggingNavigationStack = <<>>
    /\ mainContentArea =
         updateContentFromActiveStack(ModeBrowsing, navigationStack, <<>>)
    /\ backButton = updateBackButtonState(ModeBrowsing, navigationStack, <<>>)
    /\ windowTitle = browseModeTitle
    /\ windowShown = TRUE
    /\ lastEvent = NoEvent
    /\ navPushed = <<>>
    /\ logPushed = <<>>
    /\ navAtLog = <<>>
    /\ coreCall = NoCoreCall

Init == InitJournal /\ InitMain(DataFeelings)

\* ------------------------------------------------------------ SaveLogEntry
\* The caller builds the entry (Timestamp: time.Now()) and calls SaveLogEntry.
SaveCall(p) ==
    /\ pc[p] = "idle"
    /\ clock <= MaxTime
    /\ \E in \in SaveInputs, ts \in {clock, MaxTime + 1} :
         locals' = [locals EXCEPT ![p] =
                      [NoLocals EXCEPT !.entry = LogEntry(ts, in.id, in.name, in.notes)]]
    /\ clock' = clock + 1
    /\ pc' = [pc EXCEPT ![p] = "save_lock"]
    /\ UNCHANGED nvars
    /\ UNCHANGED <<journalFile, journalMutex, startFile, saved, failed,
                   writeFailed, lastLoad>>

\* SaveLogEntry entering without waiting for the mutex.
SaveLockNoWait(p) ==
    /\ pc[p] = "save_lock"
    /\ journalMutex' = TRUE
    /\ locals' = [locals EXCEPT ![p].before = journalFile]
    /\ pc' = [pc EXCEPT ![p] = "save_read"]
    /\ UNCHANGED nvars
    /\ UNCHANGED <<journalFile, clock, startFile, saved, failed,
                   writeFailed, lastLoad>>

\* storage.go:85 journalMutex.Lock()
SaveLock(p) ==
    /\ pc[p] = "save_lock"
    /\ ~journalMutex
    /\ journalMutex' = TRUE
    /\ locals' = [locals EXCEPT ![p].before = journalFile]
    /\ pc' = [pc EXCEPT ![p] = "save_read"]
    /\ UNCHANGED nvars
    /\ UNCHANGED <<journalFile, clock, startFile, saved, failed,
                   writeFailed, lastLoad>>

\* SaveLogEntry loading through loadJournalEntries, the nested locking the
\* comment at storage.go:91-96 speaks of: the read waits for the mutex the
\* call itself holds.
SaveReadNested(p) ==
    /\ pc[p] = "save_read"
    /\ ~journalMutex
    /\ \E read \in ReadOutcomes(journalFile) :
         LET prep == PrepareSave(read, locals[p].entry) IN
         /\ locals' = [locals EXCEPT ![p].read = read, ![p].out = prep.out,
                                     ![p].err = IF prep.err = "nil" THEN "none" ELSE prep.err]
         /\ pc' = [pc EXCEPT ![p] = IF prep.err = "nil" THEN "save_open" ELSE "save_ret"]
    /\ UNCHANGED nvars
    /\ UNCHANGED <<journalFile, journalMutex, clock, startFile, saved, failed,
                   writeFailed, lastLoad>>

\* storage.go:100-130 os.ReadFile, json.Unmarshal, append, json.MarshalIndent
SaveRead(p) ==
    /\ pc[p] = "save_read"
    /\ \E read \in ReadOutcomes(journalFile) :
         LET prep == PrepareSave(read, locals[p].entry) IN
         /\ locals' = [locals EXCEPT ![p].read = read, ![p].out = prep.out,
                                     ![p].err = IF prep.err = "nil" THEN "none" ELSE prep.err]
         /\ pc' = [pc EXCEPT ![p] = IF prep.err = "nil" THEN "save_open" ELSE "save_ret"]
    /\ UNCHANGED nvars
    /\ UNCHANGED <<journalFile, journalMutex, clock, startFile, saved, failed,
                   writeFailed, lastLoad>>

\* storage.go:141 os.WriteFile, the open with O_TRUNC
SaveOpen(p) ==
    /\ pc[p] = "save_open"
    /\ \E o \in OpenOutcomes(journalFile) :
         /\ journalFile' = o.file
         /\ locals' = [locals EXCEPT ![p].err = IF o.err = "nil" THEN "none" ELSE o.err]
         /\ pc' = [pc EXCEPT ![p] = IF o.err = "nil" THEN "save_write" ELSE "save_ret"]
         /\ writeFailed' = (writeFailed \/ o.err # "nil")
         /\ lastLoad' = IF o.err # "nil" THEN <<>> ELSE lastLoad
    /\ UNCHANGED nvars
    /\ UNCHANGED <<journalMutex, clock, startFile, saved, failed>>

\* storage.go:141-148 os.WriteFile, the write and close
SaveWrite(p) ==
    /\ pc[p] = "save_write"
    /\ \E w \in WriteOutcomes(locals[p].out) :
         /\ journalFile' = w.file
         /\ locals' = [locals EXCEPT ![p].err = w.err]
         /\ writeFailed' = (writeFailed \/ w.err # "nil")
         /\ lastLoad' = IF w.err # "nil" THEN <<>> ELSE lastLoad
    /\ pc' = [pc EXCEPT ![p] = "save_ret"]
    /\ UNCHANGED nvars
    /\ UNCHANGED <<journalMutex, clock, startFile, saved, failed>>

\* An Unlock placed on the success path only, instead of deferred.
SaveReturnLeak(p) ==
    /\ pc[p] = "save_ret"
    /\ journalMutex' = (locals[p].err # "nil")
    /\ saved' = IF locals[p].err = "nil" THEN Append(saved, locals[p].entry) ELSE saved
    /\ failed' = (failed \/ locals[p].err # "nil")
    /\ locals' = [locals EXCEPT ![p] = NoLocals]
    /\ pc' = [pc EXCEPT ![p] = "idle"]
    /\ UNCHANGED nvars
    /\ UNCHANGED <<journalFile, clock, startFile, writeFailed, lastLoad>>

\* storage.go:86 the deferred journalMutex.Unlock(), on every return
SaveReturn(p) ==
    /\ pc[p] = "save_ret"
    /\ journalMutex' = FALSE
    /\ saved' = IF locals[p].err = "nil" THEN Append(saved, locals[p].entry) ELSE saved
    /\ failed' = (failed \/ locals[p].err # "nil")
    /\ locals' = [locals EXCEPT ![p] = NoLocals]
    /\ pc' = [pc EXCEPT ![p] = "idle"]
    /\ UNCHANGED nvars
    /\ UNCHANGED <<journalFile, clock, startFile, writeFailed, lastLoad>>

\* ------------------------------------- GetJournalEntries, loadJournalEntries
\* storage.go:153-155
LoadCall(p) ==
    /\ pc[p] = "idle"
    /\ pc' = [pc EXCEPT ![p] = "load_lock"]
    /\ UNCHANGED nvars
    /\ UNCHANGED <<journalFile, journalMutex, locals, clock, startFile, saved, failed,
                   writeFailed, lastLoad>>

\* loadJournalEntries reading without waiting for the mutex.
LoadLockNoWait(p) ==
    /\ pc[p] = "load_lock"
    /\ journalMutex' = TRUE
    /\ pc' = [pc EXCEPT ![p] = "load_read"]
    /\ locals' = [locals EXCEPT ![p].before = journalFile]
    /\ UNCHANGED nvars
    /\ UNCHANGED <<journalFile, clock, startFile, saved, failed,
                   writeFailed, lastLoad>>

\* storage.go:53 journalMutex.Lock()
LoadLock(p) ==
    /\ pc[p] = "load_lock"
    /\ ~journalMutex
    /\ journalMutex' = TRUE
    /\ pc' = [pc EXCEPT ![p] = "load_read"]
    /\ locals' = [locals EXCEPT ![p].before = journalFile]
    /\ UNCHANGED nvars
    /\ UNCHANGED <<journalFile, clock, startFile, saved, failed,
                   writeFailed, lastLoad>>

\* loadJournalEntries repairing what it cannot use: a missing file is
\* created and a malformed one rewritten, both as an empty array.
LoadReadRepair(p) ==
    /\ pc[p] = "load_read"
    /\ \E read \in ReadOutcomes(journalFile) :
         LET r == LoadResult(read) IN
         /\ locals' = [locals EXCEPT ![p].read = read, ![p].err = r.err,
                                     ![p].result = r.entries]
         /\ journalFile' = IF read.err = "notexist" \/ Corrupt(read)
                           THEN FileOf(MarshalIndent(<<>>).data) ELSE journalFile
    /\ pc' = [pc EXCEPT ![p] = "load_ret"]
    /\ UNCHANGED nvars
    /\ UNCHANGED <<journalMutex, clock, startFile, saved, failed,
                   writeFailed, lastLoad>>

\* storage.go:56-79
LoadRead(p) ==
    /\ pc[p] = "load_read"
    /\ \E read \in ReadOutcomes(journalFile) :
         LET r == LoadResult(read) IN
         locals' = [locals EXCEPT ![p].read = read, ![p].err = r.err,
                                  ![p].result = r.entries]
    /\ pc' = [pc EXCEPT ![p] = "load_ret"]
    /\ UNCHANGED nvars
    /\ UNCHANGED <<journalFile, journalMutex, clock, startFile, saved, failed,
                   writeFailed, lastLoad>>

\* storage.go:54 the deferred journalMutex.Unlock()
LoadReturn(p) ==
    /\ pc[p] = "load_ret"
    /\ journalMutex' = FALSE
    /\ lastLoad' = IF locals[p].err = "nil" /\ NeverCorruptNoWriteFail
                    THEN locals[p].result ELSE lastLoad
    /\ locals' = [locals EXCEPT ![p] = NoLocals]
    /\ pc' = [pc EXCEPT ![p] = "idle"]
    /\ UNCHANGED nvars
    /\ UNCHANGED <<journalFile, clock, startFile, saved, failed, writeFailed>>

Next ==
    \E p \in Callers :
        \/ SaveCall(p)
        \/ SaveLock(p)
        \/ SaveRead(p)
        \/ SaveOpen(p)
        \/ SaveWrite(p)
        \/ SaveReturn(p)
        \/ LoadCall(p)
        \/ LoadLock(p)
        \/ LoadRead(p)
        \/ LoadReturn(p)

Spec == Init /\ [][Next]_vars

\* The scheduler runs every goroutine that can take a step, file
\* operations return, and a goroutine waiting in Lock gets the mutex in the
\* end (sync.Mutex hands the lock to a waiter that has waited long).
Fairness ==
    \A p \in Callers :
        /\ SF_vars(SaveLock(p))
        /\ SF_vars(LoadLock(p))
        /\ WF_vars(SaveRead(p))
        /\ WF_vars(SaveOpen(p))
        /\ WF_vars(SaveWrite(p))
        /\ WF_vars(SaveReturn(p))
        /\ WF_vars(LoadRead(p))
        /\ WF_vars(LoadReturn(p))

SpecFair == Init /\ [][Next]_vars /\ Fairness

\* ------------------------------------------------- navigation controller
\* switchToBrowsingMode without the refresh of content and back button.
switchToBrowsingModeNoRefresh ==
    IF currentMode = ModeBrowsing
    THEN UNCHANGED <<currentMode, windowTitle, mainContentArea, backButton, navAtLog>>
    ELSE /\ currentMode' = ModeBrowsing
         /\ navAtLog' = <<>>
         /\ windowTitle' = browseModeTitle
         /\ UNCHANGED <<mainContentArea, backButton>>

\* part_008:321-337, as the last call a handler makes.
switchToBrowsingMode ==
    IF currentMode = ModeBrowsing
    THEN UNCHANGED <<currentMode, windowTitle, mainContentArea, backButton, navAtLog>>
    ELSE /\ currentMode' = ModeBrowsing
         /\ navAtLog' = <<>>
         /\ windowTitle' = browseModeTitle
         /\ mainContentArea' = updateContentFromActiveStack(
                ModeBrowsing, navigationStack', loggingNavigationStack')
         /\ backButton' = updateBackButtonState(
                ModeBrowsing, navigationStack', loggingNavigationStack')

\* switchToLoggingMode without the reset of lines 306-307.
switchToLoggingModeKeep ==
    IF currentMode = ModeLogging
    THEN UNCHANGED <<currentMode, loggingNavigationStack, mainContentArea,
                     backButton, windowTitle, windowShown, logPushed, navAtLog>>
    ELSE /\ currentMode' = ModeLogging
         /\ logPushed' = <<>>
         /\ navAtLog' = navigationStack
         /\ loggingNavigationStack' =
              pushView(initialLogView(primaryEmotions), loggingNavigationStack)
         /\ mainContentArea' = updateContentFromActiveStack(
                ModeLogging, navigationStack, loggingNavigationStack')
         /\ backButton' = updateBackButtonState(
                ModeLogging, navigationStack, loggingNavigationStack')
         /\ windowTitle' = logModeTitle
         /\ windowShown' = TRUE

\* switchToLoggingMode without the early return of lines 298-301.
switchToLoggingModeAlways ==
    /\ currentMode' = ModeLogging
    /\ logPushed' = <<>>
    /\ navAtLog' = navigationStack
    /\ loggingNavigationStack' = pushView(initialLogView(primaryEmotions), <<>>)
    /\ mainContentArea' = updateContentFromActiveStack(
           ModeLogging, navigationStack, loggingNavigationStack')
    /\ backButton' = updateBackButtonState(
           ModeLogging, navigationStack, loggingNavigationStack')
    /\ windowTitle' = logModeTitle
    /\ windowShown' = TRUE

\* part_008:297-318
switchToLoggingMode ==
    IF currentMode = ModeLogging
    THEN UNCHANGED <<currentMode, loggingNavigationStack, mainContentArea,
                     backButton, windowTitle, windowShown, logPushed, navAtLog>>
    ELSE /\ currentMode' = ModeLogging
         /\ logPushed' = <<>>
         /\ navAtLog' = navigationStack
         /\ loggingNavigationStack' = pushView(initialLogView(primaryEmotions), <<>>)
         /\ mainContentArea' = updateContentFromActiveStack(
                ModeLogging, navigationStack, loggingNavigationStack')
         /\ backButton' = updateBackButtonState(
                ModeLogging, navigationStack, loggingNavigationStack')
         /\ windowTitle' = logModeTitle
         /\ windowShown' = TRUE

\* handleBrowseEmotionSelection without the len(children) > 0 test: a view
\* is pushed for a leaf too.
handleBrowseEmotionSelectionPush(selectedEmotion) ==
    \E children \in GetChildrenOf(selectedEmotion.ID, emotionData) :
        /\ navigationStack' =
             pushView(browseChildView(selectedEmotion, children), navigationStack)
        /\ mainContentArea' = updateContentFromActiveStack(
               currentMode, navigationStack', loggingNavigationStack)
        /\ backButton' = updateBackButtonState(
               currentMode, navigationStack', loggingNavigationStack)
        /\ navPushed' = Append(navPushed, navigationStack)
        /\ lastEvent' = Event("select", <<selectedEmotion>>, 0, "none", <<>>, "none")
        /\ UNCHANGED <<coreCall, emotionData, primaryEmotions, currentMode,
                       loggingNavigationStack, windowTitle, windowShown,
                       logPushed, navAtLog>>
        /\ UNCHANGED jvars

\* handleBrowseEmotionSelection calling saveLoggedEmotion on a leaf, as the
\* handler of Logging mode does.
handleBrowseEmotionSelectionLog(selectedEmotion) ==
    \E children \in GetChildrenOf(selectedEmotion.ID, emotionData) :
        IF Len(children) > 0
        THEN /\ navigationStack' =
                  pushView(browseChildView(selectedEmotion, children), navigationStack)
             /\ mainContentArea' = updateContentFromActiveStack(
                    currentMode, navigationStack', loggingNavigationStack)
             /\ backButton' = updateBackButtonState(
                    currentMode, navigationStack', loggingNavigationStack)
             /\ navPushed' = Append(navPushed, navigationStack)
             /\ lastEvent' = Event("select", <<selectedEmotion>>, 0, "none", <<>>, "none")
             /\ UNCHANGED <<coreCall, emotionData, primaryEmotions, currentMode,
                            loggingNavigationStack, windowTitle, windowShown,
                            logPushed, navAtLog>>
             /\ UNCHANGED jvars
        ELSE /\ clock <= MaxTime
             /\ LET entry == entryFor(selectedEmotion, clock) IN
                \E o \in SaveLogEntryOutcomes(journalFile, entry) :
                    /\ journalFile' = o.file
                    /\ saved' = IF o.err = "nil" THEN Append(saved, entry) ELSE saved
                    /\ failed' = (failed \/ o.err # "nil")
                    /\ writeFailed' = (writeFailed \/ o.err = "write")
                    /\ lastEvent' = Event("select", <<selectedEmotion>>, 1, o.err,
                                          <<entry>>,
                                          IF o.err = "nil" THEN "Logged" ELSE "Error")
             /\ clock' = clock + 1
             /\ UNCHANGED <<coreCall, emotionData, primaryEmotions, currentMode,
                            navigationStack, loggingNavigationStack, mainContentArea,
                            backButton, windowTitle, windowShown, navPushed,
                            logPushed, navAtLog>>
             /\ UNCHANGED <<journalMutex, pc, locals, startFile, lastLoad>>

\* part_008:241-255
handleBrowseEmotionSelection(selectedEmotion) ==
    \E children \in GetChildrenOf(selectedEmotion.ID, emotionData) :
        /\ IF Len(children) > 0
           THEN /\ navigationStack' =
                     pushView(browseChildView(selectedEmotion, children), navigationStack)
                /\ mainContentArea' = updateContentFromActiveStack(
                       currentMode, navigationStack', loggingNavigationStack)
                /\ backButton' = updateBackButtonState(
                       currentMode, navigationStack', loggingNavigationStack)
                /\ navPushed' = Append(navPushed, navigationStack)
                /\ lastEvent' = Event("select", <<selectedEmotion>>, 0, "none", <<>>, "none")
           ELSE /\ UNCHANGED <<navigationStack, mainContentArea, backButton, navPushed>>
                /\ lastEvent' = Event("select", <<selectedEmotion>>, 0, "none", <<>>,
                                      "Emotion Details")
        /\ UNCHANGED <<coreCall, emotionData, primaryEmotions, currentMode,
                       loggingNavigationStack, windowTitle, windowShown,
                       logPushed, navAtLog>>
        /\ UNCHANGED jvars

\* handleLogEmotionSelection without the switchToBrowsingMode of line 271.
handleLogEmotionSelectionStay(selectedEmotion) ==
    \E children \in GetChildrenOf(selectedEmotion.ID, emotionData) :
        /\ Len(children) = 0
        /\ clock <= MaxTime
        /\ LET entry == entryFor(selectedEmotion, clock) IN
           \E o \in SaveLogEntryOutcomes(journalFile, entry) :
               /\ journalFile' = o.file
               /\ saved' = IF o.err = "nil" THEN Append(saved, entry) ELSE saved
               /\ failed' = (failed \/ o.err # "nil")
               /\ writeFailed' = (writeFailed \/ o.err = "write")
               /\ lastEvent' = Event("select", <<selectedEmotion>>, 1, o.err, <<entry>>,
                                     IF o.err = "nil" THEN "Logged" ELSE "Error")
        /\ clock' = clock + 1
        /\ UNCHANGED <<coreCall, emotionData, primaryEmotions, currentMode, navigationStack,
                       loggingNavigationStack, mainContentArea, backButton,
                       windowTitle, windowShown, navPushed, logPushed, navAtLog>>
        /\ UNCHANGED <<journalMutex, pc, locals, startFile, lastLoad>>

\* part_008:258-292 handleLogEmotionSelection with saveLoggedEmotion
handleLogEmotionSelection(selectedEmotion) ==
    \E children \in GetChildrenOf(selectedEmotion.ID, emotionData) :
        IF Len(children) > 0
        THEN /\ loggingNavigationStack' =
                  pushView(logChildView(selectedEmotion, children), loggingNavigationStack)
             /\ mainContentArea' = updateContentFromActiveStack(
                    currentMode, navigationStack, loggingNavigationStack')
             /\ backButton' = updateBackButtonState(
                    currentMode, navigationStack, loggingNavigationStack')
             /\ logPushed' = Append(logPushed, loggingNavigationStack)
             /\ lastEvent' = Event("select", <<selectedEmotion>>, 0, "none", <<>>, "none")
             /\ UNCHANGED <<coreCall, emotionData, primaryEmotions, currentMode,
                            navigationStack, windowTitle, windowShown,
                            navPushed, navAtLog>>
             /\ UNCHANGED jvars
        ELSE /\ clock <= MaxTime
             /\ LET entry == entryFor(selectedEmotion, clock) IN
                \E o \in SaveLogEntryOutcomes(journalFile, entry) :
                    /\ journalFile' = o.file
                    /\ saved' = IF o.err = "nil" THEN Append(saved, entry) ELSE saved
                    /\ failed' = (failed \/ o.err # "nil")
                    /\ writeFailed' = (writeFailed \/ o.err = "write")
                    /\ lastEvent' = Event("select", <<selectedEmotion>>, 1, o.err,
                                          <<entry>>,
                                          IF o.err = "nil" THEN "Logged" ELSE "Error")
             /\ clock' = clock + 1
             /\ UNCHANGED <<coreCall, emotionData, primaryEmotions, navigationStack,
                            loggingNavigationStack, windowShown, navPushed, logPushed>>
             /\ switchToBrowsingMode
             /\ UNCHANGED <<journalMutex, pc, locals, startFile, lastLoad>>

\* part_008:231-238, a card of the view on screen is tapped
handleEmotionSelected(selectedEmotion) ==
    /\ windowShown
    /\ \E i \in 1..Len(mainContentArea[1].items) :
         mainContentArea[1].items[i] = selectedEmotion
    /\ IF currentMode = ModeLogging
       THEN handleLogEmotionSelection(selectedEmotion)
       ELSE handleBrowseEmotionSelection(selectedEmotion)

\* handleBack popping the browsing stack in both modes.
handleBackWrongStack ==
    /\ windowShown
    /\ lastEvent' = Event("back", <<>>, 0, "none", <<>>, "none")
    /\ LET r == popView(navigationStack) IN
       IF r.popped
       THEN /\ navigationStack' = r.stack
            /\ navPushed' = SubSeq(navPushed, 1, Len(navPushed) - 1)
            /\ mainContentArea' = updateContentFromActiveStack(
                   currentMode, r.stack, loggingNavigationStack)
            /\ backButton' = updateBackButtonState(
                   currentMode, r.stack, loggingNavigationStack)
            /\ UNCHANGED <<currentMode, loggingNavigationStack, windowTitle,
                           logPushed, navAtLog>>
       ELSE /\ UNCHANGED <<navigationStack, loggingNavigationStack,
                           navPushed, logPushed>>
            /\ switchToBrowsingMode
    /\ UNCHANGED <<coreCall, emotionData, primaryEmotions, windowShown>>
    /\ UNCHANGED jvars

\* handleBack staying in Logging at its root, the alternative the comment
\* at part_008:222 mentions.
handleBackStay ==
    /\ windowShown
    /\ lastEvent' = Event("back", <<>>, 0, "none", <<>>, "none")
    /\ LET st == activeStack(currentMode, navigationStack, loggingNavigationStack)
           r == popView(st) IN
       /\ navigationStack' = IF currentMode = ModeLogging THEN navigationStack ELSE r.stack
       /\ loggingNavigationStack' =
            IF currentMode = ModeLogging THEN r.stack ELSE loggingNavigationStack
       /\ navPushed' = IF currentMode = ModeLogging \/ ~r.popped THEN navPushed
                       ELSE SubSeq(navPushed, 1, Len(navPushed) - 1)
       /\ logPushed' = IF currentMode = ModeBrowsing \/ ~r.popped THEN logPushed
                       ELSE SubSeq(logPushed, 1, Len(logPushed) - 1)
       /\ mainContentArea' =
            IF r.popped
            THEN updateContentFromActiveStack(currentMode, navigationStack',
                                              loggingNavigationStack')
            ELSE mainContentArea
       /\ backButton' =
            IF r.popped
            THEN updateBackButtonState(currentMode, navigationStack',
                                       loggingNavigationStack')
            ELSE backButton
    /\ UNCHANGED <<currentMode, windowTitle, navAtLog>>
    /\ UNCHANGED <<coreCall, emotionData, primaryEmotions, windowShown>>
    /\ UNCHANGED jvars

\* handleBack cancelling Logging at any depth, without calling popView.
handleBackCancel ==
    /\ windowShown
    /\ lastEvent' = Event("back", <<>>, 0, "none", <<>>, "none")
    /\ IF currentMode = ModeLogging
       THEN /\ UNCHANGED <<navigationStack, loggingNavigationStack,
                           navPushed, logPushed>>
            /\ switchToBrowsingMode
       ELSE LET r == popView(navigationStack) IN
            IF r.popped
            THEN /\ navigationStack' = r.stack
                 /\ navPushed' = SubSeq(navPushed, 1, Len(navPushed) - 1)
                 /\ mainContentArea' = updateContentFromActiveStack(
                        currentMode, r.stack, loggingNavigationStack)
                 /\ backButton' = updateBackButtonState(
                        currentMode, r.stack, loggingNavigationStack)
                 /\ UNCHANGED <<currentMode, loggingNavigationStack, windowTitle,
                                logPushed, navAtLog>>
            ELSE UNCHANGED <<currentMode, navigationStack, loggingNavigationStack,
                             mainContentArea, backButton, windowTitle,
                             navPushed, logPushed, navAtLog>>
    /\ UNCHANGED <<coreCall, emotionData, primaryEmotions, windowShown>>
    /\ UNCHANGED jvars

\* part_008:216-227.  The handler is modelled whatever the state of the
\* button; lastEvent.enabled tells whether the button was enabled.
handleBack ==
    /\ windowShown
    /\ lastEvent' = Event("back", <<>>, 0, "none", <<>>, "none")
    /\ IF currentMode = ModeLogging
       THEN LET r == popView(loggingNavigationStack) IN
            IF r.popped
            THEN /\ loggingNavigationStack' = r.stack
                 /\ logPushed' = SubSeq(logPushed, 1, Len(logPushed) - 1)
                 /\ mainContentArea' = updateContentFromActiveStack(
                        currentMode, navigationStack, r.stack)
                 /\ backButton' = updateBackButtonState(
                        currentMode, navigationStack, r.stack)
                 /\ UNCHANGED <<currentMode, navigationStack, windowTitle,
                                navPushed, navAtLog>>
            ELSE /\ UNCHANGED <<navigationStack, loggingNavigationStack,
                                navPushed, logPushed>>
                 /\ switchToBrowsingMode
       ELSE LET r == popView(navigationStack) IN
            IF r.popped
            THEN /\ navigationStack' = r.stack
                 /\ navPushed' = SubSeq(navPushed, 1, Len(navPushed) - 1)
                 /\ mainContentArea' = updateContentFromActiveStack(
                        currentMode, r.stack, loggingNavigationStack)
                 /\ backButton' = updateBackButtonState(
                        currentMode, r.stack, loggingNavigationStack)
                 /\ UNCHANGED <<currentMode, loggingNavigationStack, windowTitle,
                                logPushed, navAtLog>>
            ELSE UNCHANGED <<currentMode, navigationStack, loggingNavigationStack,
                             mainContentArea, backButton, windowTitle,
                             navPushed, logPushed, navAtLog>>
    /\ UNCHANGED <<coreCall, emotionData, primaryEmotions, windowShown>>
    /\ UNCHANGED jvars

\* part_008:373-376 tray menu "Log Current Feeling..."
trayLogCurrentFeeling ==
    /\ lastEvent' = Event("log", <<>>, 0, "none", <<>>, "none")
    /\ switchToLoggingMode
    /\ UNCHANGED <<coreCall, emotionData, primaryEmotions, navigationStack, navPushed>>
    /\ UNCHANGED jvars

\* part_008:368-372 tray menu "Show Window"
trayShowWindow ==
    /\ lastEvent' = Event("show", <<>>, 0, "none", <<>>, "none")
    /\ windowShown' = TRUE
    /\ UNCHANGED <<coreCall, emotionData, primaryEmotions, currentMode, navigationStack,
                   loggingNavigationStack, mainContentArea, backButton, windowTitle,
                   navPushed, logPushed, navAtLog>>
    /\ UNCHANGED jvars

\* part_008:394-416 the close intercept (system tray supported)
closeIntercept ==
    /\ windowShown
    /\ lastEvent' = Event("close", <<>>, 0, "none", <<>>, "none")
    /\ UNCHANGED <<navigationStack, loggingNavigationStack>>
    /\ switchToBrowsingMode
    /\ windowShown' = FALSE
    /\ UNCHANGED <<coreCall, emotionData, primaryEmotions, navPushed, logPushed>>
    /\ UNCHANGED jvars

\* The emotions a card can stand for.
AllEmotions == { emotionData[k] : k \in DOMAIN emotionData }

NextNav ==
    \/ \E e \in AllEmotions : handleEmotionSelected(e)
    \/ handleBack
    \/ trayLogCurrentFeeling
    \/ trayShowWindow
    \/ closeIntercept

InitNav == InitJournal /\ \E data \in NavDatasets : InitMain(data)

SpecNav == InitNav /\ [][NextNav]_vars

\* ------------------------------------------------------- internal/core
\* The functions keep no state between calls, so a behaviour is one call.
\* hierarchy.go:14-36, a call on the loaded map
CallGetPrimaryEmotions ==
    /\ coreCall.fn = "none"
    /\ \E r \in GetPrimaryEmotions(emotionData) :
         coreCall' = [fn |-> "GetPrimaryEmotions", parentID |-> "",
                      result |-> AsSlice(r)]
    /\ UNCHANGED <<emotionData, primaryEmotions, currentMode, navigationStack,
                   loggingNavigationStack, mainContentArea, backButton,
                   windowTitle, windowShown, lastEvent, navPushed, logPushed,
                   navAtLog>>
    /\ UNCHANGED jvars

\* hierarchy.go:43-65, a call on the loaded map
CallGetChildrenOf ==
    /\ coreCall.fn = "none"
    /\ \E parentID \in CoreLookupIDs :
         \E r \in GetChildrenOf(parentID, emotionData) :
             coreCall' = [fn |-> "GetChildrenOf", parentID |-> parentID,
                          result |-> AsSlice(r)]
    /\ UNCHANGED <<emotionData, primaryEmotions, currentMode, navigationStack,
                   loggingNavigationStack, mainContentArea, backButton,
                   windowTitle, windowShown, lastEvent, navPushed, logPushed,
                   navAtLog>>
    /\ UNCHANGED jvars

NextCore ==
    \/ CallGetPrimaryEmotions
    \/ CallGetChildrenOf

\* The process has just started on one of the maps, with no journal yet.
InitCore ==
    /\ InitJournal
    /\ journalFile = NoFile
    /\ \E data \in CoreEmotionSets : InitMain(data)

SpecCore == InitCore /\ [][NextCore]_vars

\* ------------------------------------------------ properties of the journal
\* Labels of a SaveLogEntry call that holds the lock (read .. return).
SaveCritical == {"save_read", "save_open", "save_write", "save_ret"}
\* Labels of a loadJournalEntries call that holds the lock.
LoadCritical == {"load_read", "load_ret"}

\* What GetJournalEntries returns for file f when the read itself works.
FileEntries(f) == LoadResult(GoodRead(f))

Occurs(e, seq) == \E i \in 1..Len(seq) : seq[i] = e

\* The read found no file, or a zero-length file.
MissingOrEmpty(read) ==
    read.err = "notexist" \/ (read.err = "nil" /\ Len(read.data) = 0)

\* C1: no lost update.  When every SaveLogEntry call made so far has
\* returned nil and none is inside its critical section, the journal file
\* decodes to a list holding every entry that was saved.
C1_NoLostUpdate ==
    ((\A p \in Callers : pc[p] \notin SaveCritical) /\ ~failed)
    => \A i \in 1..Len(saved) : Occurs(saved[i], FileEntries(journalFile).entries)

\* Two calls overlapped (the one that took the earlier timestamp returned
\* last), both returned nil, and nothing else is running.
C1_Witness ==
    /\ \A p \in Callers : pc[p] = "idle"
    /\ ~failed
    /\ Len(saved) = 2
    /\ saved[1].Timestamp > saved[2].Timestamp

\* C2: at most one SaveLogEntry call is between its read of the file and
\* its return; any other call is still waiting for the lock.
C2_MutualExclusion ==
    Cardinality({p \in Callers : pc[p] \in SaveCritical}) <= 1

\* One call has truncated the file and is about to write while another
\* SaveLogEntry call waits at journalMutex.Lock().
C2_Witness ==
    \E p, q \in Callers : pc[p] = "save_write" /\ pc[q] = "save_lock"

\* C3: while loadJournalEntries holds what it read, no SaveLogEntry is
\* between its read and its return, and what was read is the file as it is.
C3_LoadExcludesAppend ==
    \A p \in Callers :
        pc[p] \in LoadCritical
        => /\ \A q \in Callers : pc[q] \notin SaveCritical
           /\ (pc[p] = "load_ret" /\ locals[p].read.err # "io")
              => locals[p].read = GoodRead(journalFile)

\* A load has read a file with entries while a SaveLogEntry call waits.
C3_Witness ==
    \E p, q \in Callers :
        /\ pc[p] = "load_ret" /\ locals[p].err = "nil" /\ Len(locals[p].result) >= 1
        /\ pc[q] = "save_lock"

\* C4: round trip.  Starting from a missing or zero-length journal, as long
\* as every SaveLogEntry call has returned nil, GetJournalEntries returns
\* exactly the saved entries in the order they were saved.
C4_RoundTrip ==
    \A p \in Callers :
        (/\ pc[p] = "load_ret" /\ locals[p].err = "nil"
         /\ startFile \in {NoFile, FileOf(<<>>)}
         /\ ~failed)
        => locals[p].result = saved

\* A load returned two saved entries, one of them with notes.
C4_Witness ==
    \E p \in Callers :
        /\ pc[p] = "load_ret" /\ locals[p].err = "nil"
        /\ startFile \in {NoFile, FileOf(<<>>)} /\ ~failed
        /\ Len(locals[p].result) = 2
        /\ locals[p].result[1].Notes # locals[p].result[2].Notes

\* C5: when SaveLogEntry reads undecodable content it does not fail for
\* that reason; when it returns nil the file decodes to exactly the one
\* entry just appended.
C5_CorruptionRecovery ==
    \A p \in Callers :
        (pc[p] = "save_ret" /\ Corrupt(locals[p].read))
        => /\ locals[p].err \in {"nil", "marshal", "write"}
           /\ locals[p].err = "nil"
              => FileEntries(journalFile) =
                   [err |-> "nil", entries |-> <<locals[p].entry>>]

C5_Witness ==
    \E p \in Callers :
        pc[p] = "save_ret" /\ Corrupt(locals[p].read) /\ locals[p].err = "nil"

\* C6 as claimed: loadJournalEntries on undecodable content returns an
\* empty list and no error.
C6_CorruptLoadIsEmpty ==
    \A p \in Callers :
        (pc[p] = "load_ret" /\ Corrupt(locals[p].read))
        => locals[p].err = "nil" /\ locals[p].result = <<>>

\* C7 as claimed: a SaveLogEntry that returns nil leaves the full updated
\* list in the file, one that returns an error leaves the file as it was.
C7_AllOrNothing ==
    \A p \in Callers :
        pc[p] = "save_ret"
        => IF locals[p].err = "nil"
           THEN journalFile =
                  FileOf(MarshalIndent(AppendEntry(
                      ExistingEntries(GoodRead(locals[p].before)),
                      locals[p].entry)).data)
           ELSE journalFile = locals[p].before

\* C8: a missing file and a zero-length file both count as no entries:
\* a load returns the empty list without error, a save does not fail for
\* that reason and on success leaves exactly the one new entry.
C8_MissingOrEmpty ==
    \A p \in Callers :
        MissingOrEmpty(locals[p].read)
        => /\ pc[p] = "load_ret"
              => locals[p].err = "nil" /\ locals[p].result = <<>>
           /\ pc[p] = "save_ret"
              => /\ locals[p].err \in {"nil", "marshal", "write"}
                 /\ locals[p].err = "nil"
                    => FileEntries(journalFile) =
                         [err |-> "nil", entries |-> <<locals[p].entry>>]

\* A load of a zero-length file has returned.
C8_Witness ==
    \E p \in Callers :
        /\ pc[p] = "load_ret"
        /\ locals[p].read = [err |-> "nil", data |-> <<>>]

\* C9: the lock is held only by a call that is inside its critical
\* section; once every call has returned, however it returned, it is free.
C9_LockReleased ==
    journalMutex => \E p \in Callers : pc[p] \in SaveCritical \cup LoadCritical

\* After some SaveLogEntry failed, a later call is inside the lock.
C9_Witness ==
    failed /\ \E p \in Callers : pc[p] = "save_read"

\* -------------------------------------------- properties of the controller
IsLeaf(e) == GetChildrenOf(e.ID, emotionData) = { <<>> }

\* The last handler was a card tap on a leaf while in Logging mode.
LeafLogged ==
    /\ lastEvent.kind = "select"
    /\ lastEvent.mode = ModeLogging
    /\ IsLeaf(lastEvent.emotion[1])

\* C10: after a leaf is selected in Logging mode, whatever the depth of the
\* Logging stack, the mode is Browsing, SaveLogEntry was called exactly once,
\* and when it returned nil the journal holds what it held plus that one entry.
C10_LeafInLoggingSavesOnce ==
    LeafLogged
    => /\ currentMode = ModeBrowsing
       /\ lastEvent.calls = 1
       /\ lastEvent.err = "nil"
          => FileEntries(journalFile) =
               [err |-> "nil",
                entries |-> ExistingEntries(GoodRead(lastEvent.before))
                            \o lastEvent.entry]

\* A leaf two levels below the Logging root was saved onto a non-empty journal.
C10_Witness ==
    /\ LeafLogged
    /\ lastEvent.depth = 3
    /\ lastEvent.err = "nil"
    /\ Len(FileEntries(journalFile).entries) >= 2

\* A leaf shown by the Logging root itself was saved.
C10_WitnessRoot ==
    LeafLogged /\ lastEvent.depth = 1 /\ lastEvent.err = "nil"

\* The stack of the current mode, and the stack the last handler found active.
ActiveNow == activeStack(currentMode, navigationStack, loggingNavigationStack)
ActiveBefore == activeStack(lastEvent.mode, lastEvent.nav, lastEvent.logNav)

\* C11: a leaf selected in Logging mode ends in Browsing mode with both
\* stacks as they were, the top of the browsing stack on screen, the back
\* button set from the browsing stack and the browsing title; none of this
\* depends on what SaveLogEntry returned.
C11_FailedSaveStillReturns ==
    LeafLogged
    => /\ currentMode = ModeBrowsing
       /\ navigationStack = lastEvent.nav
       /\ loggingNavigationStack = lastEvent.logNav
       /\ mainContentArea = <<lastEvent.nav[Len(lastEvent.nav)]>>
       /\ backButton = (Len(lastEvent.nav) > 1)
       /\ windowTitle = browseModeTitle

\* The write of the save failed while the browsing stack was two deep.
C11_Witness ==
    LeafLogged /\ lastEvent.err = "write" /\ Len(lastEvent.nav) = 2

\* C12: while the mode is Logging the browsing stack is the one Logging was
\* entered with, every handler run in Logging mode leaves it as it was (also
\* the one that returns to Browsing), and a handler run in Browsing mode
\* other than the switch to Logging leaves the logging stack as it was.
C12_InactiveStackUntouched ==
    /\ currentMode = ModeLogging => navigationStack = navAtLog
    /\ lastEvent.mode = ModeLogging
       => /\ navigationStack = lastEvent.nav
          /\ navigationStack = lastEvent.navAtLog
    /\ (lastEvent.mode = ModeBrowsing /\ lastEvent.kind \notin {"main", "log"})
       => loggingNavigationStack = lastEvent.logNav

\* Back in Browsing from a Logging stack two deep, browsing stack two deep.
C12_Witness ==
    /\ lastEvent.mode = ModeLogging
    /\ currentMode = ModeBrowsing
    /\ Len(navigationStack) = 2
    /\ Len(lastEvent.logNav) = 2

\* C13: the stack of the current mode always holds at least one view.
C13_ActiveStackNonEmpty == Len(ActiveNow) >= 1

\* Back was requested at a root after an entry had been logged.
C13_Witness ==
    lastEvent.kind = "back" /\ lastEvent.depth = 1 /\ saved # <<>>

\* C14: the bottom view of the active stack is the root of the mode: no
\* parent, the primary emotions as items, titled "Primary Emotions" in
\* Browsing and "Select Feeling to Log" in Logging.
C14_BottomIsRoot ==
    /\ Len(ActiveNow) >= 1
    /\ ActiveNow[1].parent = <<>>
    /\ ActiveNow[1].items = primaryEmotions
    /\ primaryEmotions \in GetPrimaryEmotions(emotionData)
    /\ ActiveNow[1].title =
         IF currentMode = ModeBrowsing THEN <<"Primary Emotions", <<>>>>
                                       ELSE <<"Select Feeling to Log", <<>>>>

\* Logging entered again after a save, and three views deep.
C14_Witness ==
    currentMode = ModeLogging /\ Len(loggingNavigationStack) = 3 /\ saved # <<>>

\* C15: the switch to Logging from Browsing leaves the mode Logging and a
\* logging stack of exactly one view, the Logging root.
C15_EnterLoggingFresh ==
    (lastEvent.kind = "log" /\ lastEvent.mode = ModeBrowsing)
    => /\ currentMode = ModeLogging
       /\ Len(loggingNavigationStack) = 1
       /\ loggingNavigationStack[1].title = <<"Select Feeling to Log", <<>>>>
       /\ loggingNavigationStack[1].parent = <<>>

\* Logging entered while the logging stack left behind was three deep.
C15_Witness ==
    lastEvent.kind = "log" /\ lastEvent.mode = ModeBrowsing /\ Len(lastEvent.logNav) = 3

\* C16: the switch to Logging requested in Logging mode changes nothing:
\* mode, both stacks, content and back button are as before.
C16_EnterLoggingTwiceNoOp ==
    (lastEvent.kind = "log" /\ lastEvent.mode = ModeLogging)
    => /\ currentMode = ModeLogging
       /\ loggingNavigationStack = lastEvent.logNav
       /\ navigationStack = lastEvent.nav
       /\ mainContentArea = lastEvent.content
       /\ backButton = lastEvent.enabled
       /\ windowTitle = lastEvent.title

C16_Witness ==
    lastEvent.kind = "log" /\ lastEvent.mode = ModeLogging /\ Len(lastEvent.logNav) = 2

\* C17: handleBack in Logging mode with one view on the logging stack
\* leaves the mode Browsing, makes no SaveLogEntry call, leaves the journal
\* file alone, and the browsing stack is the one Logging was entered with.
C17_BackAtLoggingRootCancels ==
    (lastEvent.kind = "back" /\ lastEvent.mode = ModeLogging /\ lastEvent.depth = 1)
    => /\ currentMode = ModeBrowsing
       /\ lastEvent.calls = 0
       /\ journalFile = lastEvent.before
       /\ navigationStack = lastEvent.navAtLog

C17_Witness ==
    /\ lastEvent.kind = "back" /\ lastEvent.mode = ModeLogging /\ lastEvent.depth = 1
    /\ Len(navigationStack) = 2

\* C18: handleBack in Browsing mode with one view on the browsing stack
\* changes nothing: mode, both stacks, content, back button and journal.
C18_BackAtBrowsingRootNoOp ==
    (lastEvent.kind = "back" /\ lastEvent.mode = ModeBrowsing /\ lastEvent.depth = 1)
    => /\ currentMode = ModeBrowsing
       /\ navigationStack = lastEvent.nav
       /\ loggingNavigationStack = lastEvent.logNav
       /\ mainContentArea = lastEvent.content
       /\ backButton = lastEvent.enabled
       /\ journalFile = lastEvent.before

C18_Witness ==
    /\ lastEvent.kind = "back" /\ lastEvent.mode = ModeBrowsing /\ lastEvent.depth = 1
    /\ Len(lastEvent.logNav) = 2

\* C19: the stack recorded before the i-th push still standing is exactly
\* the lowest i views of the active stack, so the first one is the root
\* alone; and a back request that pops leaves exactly the stack recorded
\* before the latest push still standing.
C19_PushPopRoundTrip ==
    LET tr == activeStack(currentMode, navPushed, logPushed) IN
    /\ Len(tr) = Len(ActiveNow) - 1
    /\ \A i \in 1..Len(tr) : tr[i] = SubSeq(ActiveNow, 1, i)
    /\ (lastEvent.kind = "back" /\ lastEvent.depth >= 2)
       => /\ currentMode = lastEvent.mode
          /\ ActiveNow = lastEvent.pushed[Len(lastEvent.pushed)]

\* Two pushes, then a back request.
C19_Witness ==
    lastEvent.kind = "back" /\ lastEvent.depth = 3

\* C20: selecting an emotion with children, in either mode, leaves the mode
\* and the journal alone, makes no SaveLogEntry call, leaves the inactive
\* stack alone, and puts exactly one view on top of the active stack: parent
\* the selected emotion, items its direct children.
C20_NonLeafPushesOne ==
    (lastEvent.kind = "select" /\ ~IsLeaf(lastEvent.emotion[1]))
    => /\ currentMode = lastEvent.mode
       /\ lastEvent.calls = 0
       /\ journalFile = lastEvent.before
       /\ Len(ActiveNow) = Len(ActiveBefore) + 1
       /\ SubSeq(ActiveNow, 1, Len(ActiveBefore)) = ActiveBefore
       /\ ActiveNow[Len(ActiveNow)].parent = lastEvent.emotion
       /\ ActiveNow[Len(ActiveNow)].items
            \in GetChildrenOf(lastEvent.emotion[1].ID, emotionData)
       /\ activeStack(currentMode, loggingNavigationStack, navigationStack)
            = activeStack(currentMode, lastEvent.logNav, lastEvent.nav)

\* A second-level emotion with children selected in Logging mode.
C20_Witness ==
    /\ lastEvent.kind = "select" /\ ~IsLeaf(lastEvent.emotion[1])
    /\ lastEvent.mode = ModeLogging /\ lastEvent.depth = 2

\* C21: selecting an emotion without children in Browsing mode changes no
\* state: mode, both stacks, content, back button and journal are as
\* before, no SaveLogEntry call is made; only the details dialog opens.
C21_BrowseLeafNoChange ==
    (lastEvent.kind = "select" /\ lastEvent.mode = ModeBrowsing
       /\ IsLeaf(lastEvent.emotion[1]))
    => /\ currentMode = ModeBrowsing
       /\ navigationStack = lastEvent.nav
       /\ loggingNavigationStack = lastEvent.logNav
       /\ mainContentArea = lastEvent.content
       /\ backButton = lastEvent.enabled
       /\ windowTitle = lastEvent.title
       /\ journalFile = lastEvent.before
       /\ lastEvent.calls = 0
       /\ lastEvent.dialog = "Emotion Details"

\* A leaf selected three views deep in Browsing, after an entry was logged.
C21_Witness ==
    /\ lastEvent.kind = "select" /\ lastEvent.mode = ModeBrowsing
    /\ IsLeaf(lastEvent.emotion[1])
    /\ lastEvent.depth = 3
    /\ saved # <<>>

\* C22: closing the window in Logging mode leaves the mode Browsing, makes
\* no SaveLogEntry call and leaves the journal alone; the browsing stack is
\* as it was and its top view is the content on screen.
C22_CloseInLoggingExits ==
    (lastEvent.kind = "close" /\ lastEvent.mode = ModeLogging)
    => /\ currentMode = ModeBrowsing
       /\ lastEvent.calls = 0
       /\ journalFile = lastEvent.before
       /\ navigationStack = lastEvent.nav
       /\ navigationStack = lastEvent.navAtLog
       /\ mainContentArea = <<navigationStack[Len(navigationStack)]>>
       /\ ~windowShown

\* The window closed two views deep in Logging, over a browsing stack two deep.
C22_Witness ==
    /\ lastEvent.kind = "close" /\ lastEvent.mode = ModeLogging
    /\ lastEvent.depth = 2
    /\ Len(navigationStack) = 2

\* C28: handleBack in Logging mode with k > 1 views on the logging stack
\* leaves the mode Logging and the logging stack equal to its former lowest
\* k-1 views; no SaveLogEntry call is made and the journal is as before.
C28_BackInLoggingPopsOne ==
    (lastEvent.kind = "back" /\ lastEvent.mode = ModeLogging /\ lastEvent.depth > 1)
    => /\ currentMode = ModeLogging
       /\ Len(loggingNavigationStack) = lastEvent.depth - 1
       /\ loggingNavigationStack = SubSeq(lastEvent.logNav, 1, lastEvent.depth - 1)
       /\ lastEvent.calls = 0
       /\ journalFile = lastEvent.before

\* Back from the third view of the logging stack.
C28_Witness ==
    lastEvent.kind = "back" /\ lastEvent.mode = ModeLogging /\ lastEvent.depth = 3

\* C30: the entry handed to SaveLogEntry on a leaf selection in Logging mode
\* has the id and the name of the selected emotion and empty notes.
C30_EntryIsSelectedEmotion ==
    LeafLogged
    => /\ Len(lastEvent.entry) = 1
       /\ lastEvent.entry[1].EmotionID = lastEvent.emotion[1].ID
       /\ lastEvent.entry[1].EmotionName = lastEvent.emotion[1].Name
       /\ lastEvent.entry[1].Notes = <<>>

\* The leaf logged has a parent, the scope of the view it was picked from.
C30_Witness ==
    /\ LeafLogged
    /\ lastEvent.emotion[1].ParentID # ""
    /\ lastEvent.logNav[Len(lastEvent.logNav)].parent # <<>>

\* ------------------------------------ more properties of the journal
IsPrefix(a, b) == Len(a) <= Len(b) /\ a = SubSeq(b, 1, Len(a))

\* Callers whose SaveLogEntry has written and is about to return nil.
SaveDone == { q \in Callers : pc[q] = "save_ret" /\ locals[q].err = "nil" }

\* C27: provided the journal never was corrupt and no write failed: outside
\* the write of a save the file holds the entries it started with followed
\* by the saved entries in the order the saves completed; a save that
\* succeeded left the entries it found followed by its own entry; and the
\* result of a GetJournalEntries call extends the result of the call
\* before it.
C27_AppendOnly ==
    NeverCorruptNoWriteFail
    => /\ (\A p \in Callers : pc[p] # "save_write")
          => IF SaveDone = {}
             THEN FileEntries(journalFile).entries
                    = FileEntries(startFile).entries \o saved
             ELSE \A q \in SaveDone :
                    FileEntries(journalFile).entries
                      = FileEntries(startFile).entries \o saved \o <<locals[q].entry>>
       /\ \A p \in SaveDone :
            FileEntries(journalFile).entries
              = Append(FileEntries(locals[p].before).entries, locals[p].entry)
       /\ \A p \in Callers :
            (pc[p] = "load_ret" /\ locals[p].err = "nil")
            => IsPrefix(lastLoad, locals[p].result)

\* A load returns one entry more than the load before it, which had
\* returned entries too, while the other caller waits to save.
C27_Witness ==
    /\ NeverCorruptNoWriteFail
    /\ \E p \in Callers :
         /\ pc[p] = "load_ret" /\ locals[p].err = "nil"
         /\ lastLoad # <<>>
         /\ Len(locals[p].result) = Len(lastLoad) + 1
         /\ \E q \in Callers : pc[q] = "save_lock"

\* C29: a SaveLogEntry whose os.ReadFile failed with an error other than
\* "does not exist" returns the read error and the file is what it was
\* when the call took the lock.
C29_ReadErrorAborts ==
    \A p \in Callers :
        (pc[p] = "save_ret" /\ locals[p].read.err = "io")
        => /\ locals[p].err = "read"
           /\ journalFile = locals[p].before

\* The read failed on a journal that holds entries.
C29_Witness ==
    \E p \in Callers :
        /\ pc[p] = "save_ret" /\ locals[p].read.err = "io"
        /\ FileEntries(journalFile).entries # <<>>

RECURSIVE NameLeq(_, _)
NameLeq(a, b) ==
    IF a = <<>> THEN TRUE
    ELSE IF b = <<>> THEN FALSE
    ELSE IF Head(a) # Head(b) THEN Head(a) < Head(b)
    ELSE NameLeq(Tail(a), Tail(b))

Elements(r) == { r[i] : i \in 1..Len(r) }
Primaries == { e \in AllEmotions : e.Type = "primary" }
ChildrenIn(id) == { e \in AllEmotions : e.ParentID = id }
EmptyNonNil == [isNil |-> FALSE, elems |-> <<>>]

\* C23: GetPrimaryEmotions returns the emotions of type "primary", all of
\* them, each once and no other, with names in non-decreasing
\* case-sensitive order.
C23_PrimaryExactSorted ==
    coreCall.fn = "GetPrimaryEmotions"
    => LET r == coreCall.result.elems IN
       /\ Elements(r) = Primaries
       /\ Len(r) = Cardinality(Primaries)
       /\ \A i \in 1..(Len(r) - 1) : NameLeq(r[i].Name, r[i + 1].Name)

\* "B" before "a" among the primaries of a map that also holds another type.
C23_Witness ==
    /\ coreCall.fn = "GetPrimaryEmotions"
    /\ Len(coreCall.result.elems) = 2
    /\ coreCall.result.elems[1].Name = <<66>>
    /\ coreCall.result.elems[2].Name = <<97>>
    /\ \E e \in AllEmotions : e.Type # "primary" /\ e.ParentID = ""

C25_Reproducible ==
    /\ coreCall.fn = "GetPrimaryEmotions"
       => GetPrimaryEmotions(emotionData) = {coreCall.result.elems}
    /\ coreCall.fn = "GetChildrenOf"
       => GetChildrenOf(coreCall.parentID, emotionData) = {coreCall.result.elems}

C31_OnlyLoggedLeafWrites ==
    /\ (lastEvent.kind # "main" /\ ~LeafLogged)
       => (lastEvent.calls = 0 /\ journalFile = lastEvent.before)
    /\ (saved = <<>> /\ ~failed) => journalFile = startFile

\* The window is closed two levels below the Logging root, after taps in
\* both modes and no save, on a journal that holds an entry.
C31_Witness ==
    /\ lastEvent.kind = "close"
    /\ lastEvent.mode = ModeLogging
    /\ lastEvent.depth = 3
    /\ Len(navigationStack) >= 2
    /\ saved = <<>> /\ ~failed
    /\ FileEntries(journalFile).entries # <<>>

\* C32: in every state a handler leaves, the content area holds exactly
\* the top view of the stack of the current mode.
C32_ContentIsActiveTop ==
    /\ Len(ActiveNow) >= 1
    /\ mainContentArea = <<ActiveNow[Len(ActiveNow)]>>

\* Back was pressed at the Logging root while the browsing stack was three
\* deep: the content is the third browsing view again.
C32_Witness ==
    /\ lastEvent.kind = "back"
    /\ lastEvent.mode = ModeLogging
    /\ lastEvent.depth = 1
    /\ currentMode = ModeBrowsing
    /\ Len(navigationStack) = 3
    /\ mainContentArea = <<navigationStack[3]>>

\* C33: in every state a handler leaves, the back button is enabled exactly
\* when the stack of the current mode holds more than one view.
C33_BackEnabledIffDeeper ==
    backButton <=> (Len(ActiveNow) > 1)

\* Logging mode at its root, the browsing stack deeper: the button is off.
C33_Witness ==
    /\ currentMode = ModeLogging
    /\ Len(loggingNavigationStack) = 1
    /\ Len(navigationStack) >= 2
    /\ ~backButton

\* Every view above the bottom is scoped by one of the cards of the view
\* below it and shows the direct children of that emotion, each once.
IsPath(stack) ==
    \A i \in 2..Len(stack) :
        /\ stack[i].parent # <<>>
        /\ stack[i].parent[1] \in Elements(stack[i - 1].items)
        /\ Elements(stack[i].items) = ChildrenIn(stack[i].parent[1].ID)
        /\ Len(stack[i].items) = Cardinality(ChildrenIn(stack[i].parent[1].ID))

\* C34: taps being taps on cards of the view on screen, both stacks are
\* paths in the hierarchy.
C34_StacksArePaths ==
    IsPath(navigationStack) /\ IsPath(loggingNavigationStack)

\* Both stacks three views deep.
C34_Witness ==
    Len(navigationStack) = 3 /\ Len(loggingNavigationStack) = 3

\* The number of emotions on the chain of parent links from e up to an
\* emotion whose parent is not in the map.
RECURSIVE ChainLen(_)
ChainLen(e) ==
    IF e.ParentID \in DOMAIN emotionData
    THEN 1 + ChainLen(emotionData[e.ParentID])
    ELSE 1

\* d, the longest such chain in the loaded data.
LongestChain ==
    CHOOSE d \in 1..Cardinality(AllEmotions) :
        /\ \E e \in AllEmotions : ChainLen(e) = d
        /\ \A e \in AllEmotions : ChainLen(e) <= d

\* C35: neither stack holds more than d views, d the longest chain of the
\* loaded data; so a card tapped in a view d deep is a leaf, and in Logging
\* mode that tap saves and returns to Browsing mode.
C35_StacksBoundedByDepth ==
    /\ Len(navigationStack) <= LongestChain
    /\ Len(loggingNavigationStack) <= LongestChain
    /\ (lastEvent.kind = "select" /\ lastEvent.depth = LongestChain)
       => /\ IsLeaf(lastEvent.emotion[1])
          /\ lastEvent.mode = ModeLogging
             => (lastEvent.calls = 1 /\ currentMode = ModeBrowsing)

\* The d-th tap in a row, from the Logging root of data whose longest chain
\* is two emotions, with the browsing stack at its bound too.
C35_Witness ==
    /\ LongestChain = 2
    /\ lastEvent.kind = "select"
    /\ lastEvent.mode = ModeLogging
    /\ lastEvent.depth = LongestChain
    /\ Len(navigationStack) = LongestChain

\* --------------------------------------------- the journal, once more
\* C37: while a GetJournalEntries call is between its Lock and its Unlock
\* the journal file is what it was when the call took the lock: a missing
\* file is still missing, an empty one still empty, a malformed one still
\* holds the same bytes and a valid one the same entries.
C37_LoadIsReadOnly ==
    \A p \in Callers :
        pc[p] \in LoadCritical => journalFile = locals[p].before

\* A load has found the file malformed and returns its error.
C37_Witness ==
    \E p \in Callers :
        /\ pc[p] = "load_ret"
        /\ Corrupt(locals[p].read)
        /\ locals[p].err # "nil"

\* A load has found no file.
C37_WitnessMissing ==
    \E p \in Callers :
        pc[p] = "load_ret" /\ locals[p].read.err = "notexist"

\* C38: whenever the journal file decodes, its entries are in
\* non-decreasing order of their timestamps.
C38_TimestampOrder ==
    LET f == FileEntries(journalFile) IN
    f.err = "nil"
    => \A i \in 1..(Len(f.entries) - 1) :
         f.entries[i].Timestamp <= f.entries[i + 1].Timestamp
====
